---------------------------- MODULE Spec2Model ----------------------------
(***************************************************************************)
(* Location ingestion and fan-out pipeline of the Motive GPS tracker:      *)
(* the polling service (server/motivePoller.ts), the storage layer         *)
(* (DatabaseStorage) and the HTTP routes with their in-memory caches and   *)
(* the throttle/dedup gate (registerRoutes).                               *)
(*                                                                         *)
(* Node.js runs every handler on one event loop: a handler runs without    *)
(* interruption from one await to the next.  Each action below is one such *)
(* uninterrupted run: the completion of the awaited call (the HTTP         *)
(* response, the storage call's effect) followed by everything the handler *)
(* does up to its next await.                                              *)
(*                                                                         *)
(* Units: time is in milliseconds; a coordinate is an integer number of    *)
(* 0.00001 degrees, so the gate's threshold of 0.0001 degrees is 10.       *)
(***************************************************************************)
EXTENDS Integers, Sequences, FiniteSets, TLC

(***************************************************************************)
(* Program constants                                                       *)
(***************************************************************************)
MAX_POLL_RESULTS == 50
LOCATION_UPDATE_INTERVAL_MS == 30000
LOCATION_CACHE_TTL_MS == 10000
\* hasLocationChanged: threshold = 0.0001 degrees, in units of 0.00001 degrees
THRESHOLD == 10
\* per_page=100 of both listing URLs, and the "length < 100" last-page test
PER_PAGE == 100

DEFAULT_VEHICLE_COLOR == "#3b82f6"
DEFAULT_ASSET_COLOR == "#10b981"

(***************************************************************************)
(* Bounds of the model                                                     *)
(***************************************************************************)
\* steps the clock advances in one behaviour
MaxTicks == 2
\* invocations of pollAll (timer, startPolling, pollNow) made while no cycle
\* is in progress, and made while one is
MaxCycles == 1
MaxSkips == 1
\* pages the simulated upstream serves to one class run
MaxPages == 2
\* records of interest on one page
MaxPageLen == 2
\* rows the vehicle_locations table holds
MaxRows == 3
\* webhook requests in one behaviour
MaxWebhooks == 3
\* administrative edits in one behaviour
MaxAdmin == 2
\* deletions of one vehicle in one behaviour
MaxDeletes == 1
\* Latest-Locations reads in one behaviour
MaxReads == 3
\* calls of startPolling that find no credential
MaxDisabledStarts == 1
\* live subscribers that connect in one behaviour
MaxClients == 2
\* verification pings answered
MaxPings == 1
\* connections of the client that are lost or fail to open
MaxLosses == 2
\* re-runs of the client hook's effect (its dependency onMessage changed)
MaxRenders == 1

\* Date.now() at process start: far more than one throttle interval after 0
StartNow == 2 * LOCATION_UPDATE_INTERVAL_MS

(***************************************************************************)
(* Identifiers and values                                                  *)
(***************************************************************************)
\* the id the upstream gives the tracked entity
RawId == "7"
\* asset-${assetId}
AssetId(raw) == "asset-" \o raw
Ids == {RawId, AssetId(RawId)}
\* activations of pollAll's body that can be in progress at once, were the
\* running flag not to prevent it
Slots == {1, 2}
\* the WebSocket connections
Clients == 1..MaxClients

NoMeta == [name |-> "", color |-> ""]
Meta(n, c) == [name |-> n, color |-> c]
NoCoords == [has |-> FALSE, lat |-> 0, lon |-> 0]
Coords(la, lo) == [has |-> TRUE, lat |-> la, lon |-> lo]
Abs(x) == IF x < 0 THEN -x ELSE x

VARIABLES
    \* ---- process and clock
    now,                 \* Date.now()
    apiKey,              \* process.env.MOTIVE_API_KEY is set
    \* ---- motivePoller.ts
    pollingTimer,        \* the interval timer is armed
    isPolling,           \* the running flag
    cyc,                 \* the activations of pollAll's body, by slot
    recentPollResults,   \* the poll-result log, most recent first
    \* ---- storage (PostgreSQL)
    dbVehicles,          \* table vehicles: id -> name, color
    dbLocations,         \* table vehicle_locations, in insertion order
    \* ---- routes: in-memory state
    vehicleMetadataCache,
    lastUpdateTime,
    lastKnownCoords,
    locationCache,
    \* ---- routes: requests in flight
    wh,                  \* webhook requests, by slot
    rd,                  \* GET /api/vehicles requests, by slot
    del,                 \* DELETE /api/vehicles/:id in progress, by id
    \* ---- routes: live subscribers
    wsClients,           \* the subscriber set
    readyState,          \* by connection: its WebSocket readyState
    received,            \* by connection: the events sent to it, as their
                         \* numbers in broadcasts
    \* ---- observation (history the properties are stated on)
    pollCalls,           \* invocations of pollAll so far
    cyclesStarted,       \* invocations that passed the running flag
    broadcasts,          \* location_update events sent, in order
    whLog,               \* webhook location requests, in order of arrival
    deletes,             \* completed deletions, by id
    adminCalls,          \* administrative requests so far
    reads,               \* Latest-Locations reads so far
    editDone,            \* by id: the name and color of the last completed
                         \* administrative edit since the id's last deletion
    lastResp,            \* the last Latest-Locations response
    fetched,             \* the last upstream response a class run handled
    disabledStarts,      \* calls of startPolling that found no credential
    pingResponses,       \* the responses to verification pings, in order
    \* ---- motivePoller.ts: the speed and status of one upstream record
    location,            \* the record's location object, as received
    reading,             \* the speed and status stored for it
    \* ---- client: one component using the useWebSocket hook
    hook,                \* "idle" (not mounted yet), "mounted", "unmounted"
    sockets,             \* the WebSocket objects the hook has created, in order
    wsCurrent,           \* ws.current: the index of a socket, 0 for null
    timers,              \* the reconnect timers that are pending, by id
    reconnectTimeout,    \* reconnectTimeout.current: a timer id, 0 for undefined
    isConnected,         \* the hook's state isConnected
    losses,              \* connections lost or failed so far
    renders              \* re-runs of the effect so far

normVars == <<location, reading>>
hookVars == <<hook, sockets, wsCurrent, timers, reconnectTimeout, isConnected, losses, renders>>
pollerVars == <<pollingTimer, isPolling, cyc, recentPollResults>>
storageVars == <<dbVehicles, dbLocations>>
cacheVars == <<vehicleMetadataCache, lastUpdateTime, lastKnownCoords, locationCache>>
requestVars == <<wh, rd, del>>
ghostVars == <<pollCalls, cyclesStarted, broadcasts, whLog, deletes, adminCalls, reads,
               editDone, lastResp, fetched, disabledStarts, pingResponses, normVars,
               hookVars>>
fanoutVars == <<wsClients, readyState, received>>
vars == <<now, apiKey, pollerVars, storageVars, cacheVars, requestVars, fanoutVars, ghostVars>>

(***************************************************************************)
(* Storage: DatabaseStorage                                                *)
(***************************************************************************)
\* insert ... on conflict (vehicle_id) do update set name, color
upsertVehicle(tbl, id, m) == [tbl EXCEPT ![id] = m]

\* select ... where vehicle_id = id
getVehicle(tbl, id) == tbl[id]

\* insert into vehicle_locations; received_at defaults to now()
insertVehicleLocation(rows, r) == Append(rows, r)

Row(id, la, lo, ts, at, via) ==
    [vehicleId |-> id, lat |-> la, lon |-> lo, timestamp |-> ts,
     receivedAt |-> at, via |-> via]

RowsOf(rows, id) == {i \in 1..Len(rows) : rows[i].vehicleId = id}

\* SELECT DISTINCT ON (vehicle_id) * ... ORDER BY vehicle_id, timestamp DESC:
\* for each vehicle one of its rows of greatest timestamp (which one of
\* several such rows is not determined by the query)
LatestOf(rows, id) ==
    {i \in RowsOf(rows, id) : \A j \in RowsOf(rows, id) : rows[j].timestamp <= rows[i].timestamp}

NoLoc == [has |-> FALSE, lat |-> 0, lon |-> 0]
Loc(la, lo) == [has |-> TRUE, lat |-> la, lon |-> lo]

\* the possible results of getAllVehicleLatestLocations: id -> position
getAllVehicleLatestLocations(rows) ==
    {f \in [Ids -> {NoLoc} \cup {Loc(rows[i].lat, rows[i].lon) : i \in 1..Len(rows)}] :
        \A id \in Ids :
            IF RowsOf(rows, id) = {} THEN f[id] = NoLoc
            ELSE \E i \in LatestOf(rows, id) : f[id] = Loc(rows[i].lat, rows[i].lon)}

\* delete from vehicle_locations where vehicle_id = id
RECURSIVE deleteLocations(_, _)
deleteLocations(rows, id) ==
    IF rows = <<>> THEN <<>>
    ELSE IF Head(rows).vehicleId = id THEN deleteLocations(Tail(rows), id)
    ELSE <<Head(rows)>> \o deleteLocations(Tail(rows), id)

(***************************************************************************)
(* Poll-result log                                                         *)
(***************************************************************************)
Outcome(cls, ok, n) == [type |-> cls, success |-> ok, vehicleCount |-> n]

\* a log that keeps the successful outcomes only
addPollResultSuccessOnly(log, result) == IF result.success THEN <<result>> \o log ELSE log
\* a log without the cap
addPollResultUncapped(log, result) == <<result>> \o log
\* recentPollResults.unshift(result); pop() when longer than MAX_POLL_RESULTS
addPollResult(log, result) ==
    LET l == <<result>> \o log
    IN  IF Len(l) > MAX_POLL_RESULTS THEN SubSeq(l, 1, Len(l) - 1) ELSE l

\* clearPollResults: recentPollResults.length = 0
clearPollResults(log) == <<>>

(***************************************************************************)
(* Upstream responses and raw records                                      *)
(***************************************************************************)
\* one element of data.vehicles / data.assets:
\*   shape "null"  : a JSON null
\*   shape "noloc" : an object without current_location (last_location, ...)
\*   shape "loc"   : an object with a location; finite = both coordinates
\*                   convert to finite numbers; valid = the record passes
\*                   insertVehicleLocationSchema; label = number / name
Entry(shape, fin, la, lo, label, valid) ==
    [shape |-> shape, finite |-> fin, lat |-> la, lon |-> lo, label |-> label,
     valid |-> valid]
NullEntry == Entry("null", FALSE, 0, 0, "", FALSE)
NoLocEntry == Entry("noloc", FALSE, 0, 0, "", FALSE)

\* data.pagination: absent, or { total_pages }
NoPagination == [has |-> FALSE, total_pages |-> 0]
Pagination(n) == [has |-> TRUE, total_pages |-> n]

\* a response: kind "throw" (fetch or the body read rejects), "http" (a
\* non-success status) or "ok" with a page: recs are the leading records of
\* the array and len its length (the records after recs carry no location)
HttpError(st) == [kind |-> "http", status |-> st, recs |-> <<>>, len |-> 0, pag |-> NoPagination]
NetworkError == [kind |-> "throw", status |-> 0, recs |-> <<>>, len |-> 0, pag |-> NoPagination]
Page(recs, len, pag) == [kind |-> "ok", status |-> 200, recs |-> recs, len |-> len, pag |-> pag]

(***************************************************************************)
(* motivePoller.ts: one class run                                          *)
(***************************************************************************)
\* the state of one class run: the page being fetched or processed, the
\* records of the page not yet processed (the first one is in progress), and
\* what the pagination step after the page's last record will decide
IdleCycle ==
    [pc |-> "idle", cls |-> "vehicles", page |-> 0, recs |-> <<>>, more |-> FALSE,
     totalProcessed |-> 0]
\* let page = 1; let hasMore = true; let totalProcessed = 0; fetch(url)
StartClass(cls) ==
    [pc |-> "fetch", cls |-> cls, page |-> 1, recs |-> <<>>, more |-> FALSE,
     totalProcessed |-> 0]

\* String(vehicle.id ...) for vehicles, `asset-${assetId}` for assets
VehicleIdOf(cls) == IF cls = "vehicles" THEN RawId ELSE AssetId(RawId)
\* vehicle.number || vehicle.name || vehicleId ; asset.name || asset.number || `Asset ${assetId}`
DefaultNameOf(cls, e) ==
    IF e.label # "" THEN e.label
    ELSE IF cls = "vehicles" THEN RawId ELSE "Asset " \o RawId
DefaultColorOf(cls) == IF cls = "vehicles" THEN DEFAULT_VEHICLE_COLOR ELSE DEFAULT_ASSET_COLOR

\* the record is dropped before the inner try: no location, a coordinate
\* that is not finite, or both coordinates 0
DroppedEntry(e) ==
    \/ e.shape = "noloc"
    \/ ~e.finite
    \/ (e.lat = 0 /\ e.lon = 0)

\* the pagination step after the for loop: TRUE when another page is fetched
HasMore(page, resp) ==
    IF resp.pag.has
    THEN LET totalPages == IF resp.pag.total_pages = 0 THEN 1 ELSE resp.pag.total_pages
         IN  ~(page >= totalPages)
    ELSE ~(resp.len < PER_PAGE)

\* page++ (the model counts the pages up to MaxPages + 1: a run that goes on
\* beyond that page stays there)
NextPage(page) == IF page > MaxPages THEN page ELSE page + 1

AfterPage(c) ==
    IF c.more
    THEN [c EXCEPT !.pc = "fetch", !.page = NextPage(@), !.recs = <<>>, !.more = FALSE]
    ELSE [c EXCEPT !.pc = "success"]

\* entry.vehicle on a null entry throws outside the inner try
EntryThrows(e) == e.shape = "null"

\* the for loop from the first record of c.recs on, up to the next await: the
\* records that are dropped or fail validation are passed over; the run stops
\* at the first record that reaches storage.getVehicle, at a throw, or after
\* the page
RECURSIVE RunRecords(_)
RunRecords(c) ==
    IF c.recs = <<>> THEN AfterPage(c)
    ELSE LET e == Head(c.recs)
         IN  IF EntryThrows(e) THEN [c EXCEPT !.pc = "thrown", !.recs = <<>>]
             ELSE IF DroppedEntry(e) \/ ~e.valid
                  THEN RunRecords([c EXCEPT !.recs = Tail(@)])
                  ELSE [c EXCEPT !.pc = "getVehicle"]

\* the record in progress is done, or the inner catch has logged its error:
\* go on with the next record
NextRecord(c) == RunRecords([c EXCEPT !.recs = Tail(@)])

\* the handling of a response, up to the next await
OnResponse(c, resp) ==
    IF resp.kind = "throw" THEN [c EXCEPT !.pc = "thrown"]
    ELSE IF resp.kind = "http"
         THEN IF c.cls = "assets" /\ resp.status = 404
              THEN [c EXCEPT !.pc = "absent"]
              ELSE [c EXCEPT !.pc = "failed"]
         ELSE IF resp.len = 0 THEN [c EXCEPT !.pc = "success"]
              ELSE RunRecords([c EXCEPT !.recs = resp.recs, !.more = HasMore(c.page, resp)])

\* a class run that would report every end as a success
OutcomeOfAlwaysSuccess(c) == Outcome(c.cls, TRUE, c.totalProcessed)
\* the PollOutcome a finished class run records
OutcomeOf(c) ==
    CASE c.pc = "success" -> Outcome(c.cls, TRUE, c.totalProcessed)
      [] c.pc = "absent" -> Outcome(c.cls, TRUE, 0)
      [] OTHER -> Outcome(c.cls, FALSE, 0)

ClassOver(c) == c.pc \in {"success", "absent", "failed", "thrown"}

\* a pollAll that goes on to the assets only after a successful vehicles run
AssetsFollowSuccess(c) == c.cls = "vehicles" /\ apiKey /\ c.pc = "success"
\* await fetchVehicleLocations(); await fetchAssetLocations(): the vehicles
\* run, however it ended, is followed by the assets run (which returns at
\* once without the credential)
AssetsFollow(c) == c.cls = "vehicles" /\ apiKey

\* pollAll: after fetchVehicleLocations, fetchAssetLocations; finally the flag
\* is cleared.
Settle(s, c) ==
    IF ClassOver(c)
    THEN /\ recentPollResults' = addPollResult(recentPollResults, OutcomeOf(c))
         /\ IF AssetsFollow(c)
            THEN /\ cyc' = [cyc EXCEPT ![s] = StartClass("assets")]
                 /\ UNCHANGED isPolling
            ELSE /\ cyc' = [cyc EXCEPT ![s] = IdleCycle]
                 /\ isPolling' = FALSE
    ELSE /\ cyc' = [cyc EXCEPT ![s] = c]
         /\ UNCHANGED <<recentPollResults, isPolling>>

(***************************************************************************)
(* routes: the Latest-Locations cache                                      *)
(***************************************************************************)
NoData == [id \in Ids |-> [has |-> FALSE, name |-> "", color |-> "", lat |-> 0, lon |-> 0]]
\* locationCache = null
NoCache == [valid |-> FALSE, data |-> NoData, timestamp |-> 0]
\* invalidateLocationCache()
invalidateLocationCache(lc) == NoCache

\* the function handed to setBroadcastFunction: on a polled reading, invalidate
\* the Latest-Locations cache and send the event to the subscribers
broadcastLocationUpdate(lc) == invalidateLocationCache(lc)

Event(id, la, lo, via) == [vehicleId |-> id, lat |-> la, lon |-> lo, via |-> via]

\* a fan-out that sends to every member of the subscriber set
DeliverableAny(c) == c \in wsClients
\* wsClients.forEach((client) => { if (client.readyState === WebSocket.OPEN)
\* client.send(message) }): the connections the event is sent to
Deliverable(c) == c \in wsClients /\ readyState[c] = "OPEN"
\* what each connection has been sent once event number k is fanned out
FanOut(k) ==
    [c \in Clients |-> IF Deliverable(c) THEN received[c] \cup {k} ELSE received[c]]

\* a handler that goes on to the broadcast whether or not the insert succeeded
InsertIgnored(ok) == TRUE
\* await storage.insertVehicleLocation(validated): the statements after it,
\* the broadcast among them, run when the insert has succeeded; a rejection
\* goes to the catch
InsertResolved(ok) == ok

(***************************************************************************)
(* motivePoller.ts: speed and status of a record                           *)
(***************************************************************************)
\* km/h to mph, in millionths
KPH_TO_MPH == 621371
\* a speed of n mph as it is stored: speeds are stored in millionths of a mph
Millionths(n) == n * 1000000
\* a field that is absent (undefined)
Absent == -1
\* a location object: the fields the poller reads for speed and status, and
\* speed_kph; numbers are whole mph or km/h, vehicle_state is "" when absent
Location(cls, speed, kph, speed_kph, ground_speed_kph, vehicle_state, moving) ==
    [cls |-> cls, speed |-> speed, kph |-> kph, speed_kph |-> speed_kph,
     ground_speed_kph |-> ground_speed_kph, vehicle_state |-> vehicle_state,
     moving |-> moving]
NoLocation == Location("none", Absent, Absent, Absent, Absent, "", FALSE)
Reading(speed, status) == [speed |-> speed, status |-> status]
NoReading == Reading(0, "")
\* a ?? b
Coalesce(a, b) == IF a # Absent THEN a ELSE b

\* fetchVehicleLocations: speed = Number(speed ?? kph ?? 0); the status is
\* vehicle_state, else "moving" if speed > 0, else "stopped"; the stored
\* speed is speed * 0.621371 if kph is truthy, else speed
vehicleReading(cl) ==
    LET speed == Coalesce(cl.speed, Coalesce(cl.kph, 0))
        kphTruthy == cl.kph # Absent /\ cl.kph # 0
    IN  Reading(IF kphTruthy THEN speed * KPH_TO_MPH ELSE Millionths(speed),
                IF cl.vehicle_state # "" THEN cl.vehicle_state
                ELSE IF speed > 0 THEN "moving" ELSE "stopped")
\* fetchAssetLocations: speedKph = Number(ground_speed_kph ?? speed ?? 0);
\* the stored speed is speedKph * 0.621371, the status is the moving flag
assetReading(cl) ==
    LET speedKph == Coalesce(cl.ground_speed_kph, Coalesce(cl.speed, 0))
    IN  Reading(speedKph * KPH_TO_MPH, IF cl.moving THEN "moving" ELSE "stopped")

\* the poller computes the speed and status of one record
Normalize(cl) ==
    /\ location' = cl
    /\ reading' = IF cl.cls = "vehicles" THEN vehicleReading(cl) ELSE assetReading(cl)
    /\ UNCHANGED <<now, apiKey, pollerVars, storageVars, cacheVars, requestVars, fanoutVars,
                   pollCalls, cyclesStarted, broadcasts, whLog, deletes, adminCalls, reads,
                   editDone, lastResp, fetched, disabledStarts, pingResponses, hookVars>>

(***************************************************************************)
(* motivePoller.ts: actions                                                *)
(***************************************************************************)
\* a pollAll without the running flag
PollAllSkipsNever == FALSE
\* if (isPolling) return;
PollAllSkips == isPolling

FreeSlot(s) == cyc[s].pc = "idle" /\ \A t \in Slots : t < s => cyc[t].pc # "idle"

\* pollAll(), up to its first await
PollAll ==
    /\ pollCalls < MaxCycles + MaxSkips
    /\ (\A s \in Slots : cyc[s].pc = "idle") => cyclesStarted < MaxCycles
    /\ pollCalls' = pollCalls + 1
    /\ IF PollAllSkips
       THEN UNCHANGED <<cyc, isPolling, cyclesStarted>>
       ELSE /\ cyclesStarted' = cyclesStarted + 1
            /\ IF apiKey
               THEN /\ \E s \in Slots :
                         /\ FreeSlot(s)
                         /\ cyc' = [cyc EXCEPT ![s] = StartClass("vehicles")]
                    /\ isPolling' = TRUE
               ELSE \* both class runs return at once; finally { isPolling = false }
                    /\ isPolling' = FALSE
                    /\ UNCHANGED cyc
    /\ UNCHANGED <<now, apiKey, recentPollResults, storageVars, cacheVars, requestVars,
                   broadcasts, whLog, deletes, adminCalls, reads, editDone, lastResp, fetched,
                   disabledStarts, pingResponses, hookVars, normVars, fanoutVars>>

\* a startPolling that does not look at the credential
CredentialIgnored == FALSE
\* const apiKey = process.env.MOTIVE_API_KEY; if (!apiKey) { ... return; }
CredentialMissing == ~apiKey

\* startPolling()
StartPolling ==
    IF pollingTimer
    THEN UNCHANGED vars
    ELSE IF CredentialMissing
         THEN /\ disabledStarts < MaxDisabledStarts
              /\ disabledStarts' = disabledStarts + 1
              /\ UNCHANGED <<now, apiKey, pollerVars, storageVars, cacheVars, requestVars,
                             fanoutVars, pollCalls, cyclesStarted, broadcasts, whLog, deletes,
                             adminCalls, reads, editDone, lastResp, fetched,
                             pingResponses, hookVars, normVars>>
         ELSE /\ PollAll
              /\ pollingTimer' = TRUE

\* the credential is put into the environment of the process
SetCredential ==
    /\ ~apiKey
    /\ apiKey' = TRUE
    /\ UNCHANGED <<now, pollerVars, storageVars, cacheVars, requestVars, fanoutVars,
                   ghostVars>>

\* the interval timer fires (the model does not measure the 60 s between
\* two firings: the timer may fire at any time while it is armed)
TimerFire ==
    /\ pollingTimer
    /\ PollAll
    /\ UNCHANGED pollingTimer

\* pollNow()
PollNow ==
    /\ PollAll
    /\ UNCHANGED pollingTimer

\* stopPolling()
StopPolling ==
    /\ pollingTimer
    /\ pollingTimer' = FALSE
    /\ UNCHANGED <<now, apiKey, isPolling, cyc, recentPollResults, storageVars, cacheVars,
                   requestVars, ghostVars, fanoutVars>>

\* clearPollResults(), an administrative request
ClearPollResults ==
    /\ adminCalls < MaxAdmin
    /\ adminCalls' = adminCalls + 1
    /\ recentPollResults' = clearPollResults(recentPollResults)
    /\ UNCHANGED <<now, apiKey, pollingTimer, isPolling, cyc, storageVars, cacheVars,
                   requestVars, fanoutVars, pollCalls, cyclesStarted, broadcasts, whLog,
                   deletes, reads, editDone, lastResp, fetched, disabledStarts, pingResponses, hookVars, normVars>>

\* the response to the page request arrives
PResponse(s, resp) ==
    /\ cyc[s].pc = "fetch"
    /\ Settle(s, OnResponse(cyc[s], resp))
    /\ fetched' = [cls |-> cyc[s].cls, page |-> cyc[s].page, kind |-> resp.kind,
                   status |-> resp.status]
    /\ UNCHANGED <<now, apiKey, pollingTimer, storageVars, cacheVars, requestVars, pollCalls,
                   cyclesStarted, broadcasts, whLog, deletes, adminCalls, reads, editDone,
                   lastResp, disabledStarts, pingResponses, hookVars, normVars, fanoutVars>>

\* the response of an upstream that serves at most MaxPages pages to a class run
PFetch(s, resp) ==
    /\ cyc[s].pc = "fetch"
    /\ cyc[s].page < MaxPages \/ resp.kind # "ok" \/ ~HasMore(cyc[s].page, resp)
    /\ PResponse(s, resp)

\* storage.getVehicle returns (ok) or rejects
PGetVehicle(s, ok) ==
    /\ cyc[s].pc = "getVehicle"
    /\ LET c == cyc[s]
       IN  IF ok
           THEN IF getVehicle(dbVehicles, VehicleIdOf(c.cls)) # NoMeta
                THEN Settle(s, [c EXCEPT !.pc = "insert"])
                ELSE Settle(s, [c EXCEPT !.pc = "upsert"])
           ELSE Settle(s, NextRecord(c))
    /\ UNCHANGED <<now, apiKey, pollingTimer, storageVars, cacheVars, requestVars, ghostVars,
                   fanoutVars>>

\* storage.upsertVehicle returns (ok) or rejects
PUpsert(s, ok) ==
    /\ cyc[s].pc = "upsert"
    /\ LET c == cyc[s]
           e == Head(c.recs)
       IN  IF ok
           THEN /\ dbVehicles' = upsertVehicle(dbVehicles, VehicleIdOf(c.cls),
                                    Meta(DefaultNameOf(c.cls, e), DefaultColorOf(c.cls)))
                /\ Settle(s, [c EXCEPT !.pc = "insert"])
           ELSE /\ Settle(s, NextRecord(c))
                /\ UNCHANGED dbVehicles
    /\ UNCHANGED <<now, apiKey, pollingTimer, dbLocations, cacheVars, requestVars, ghostVars,
                   fanoutVars>>

\* storage.insertVehicleLocation returns (ok) or rejects
PInsert(s, ok) ==
    /\ cyc[s].pc = "insert"
    /\ LET c == cyc[s]
           e == Head(c.recs)
           id == VehicleIdOf(c.cls)
       IN  /\ IF ok
              THEN /\ Len(dbLocations) < MaxRows
                   /\ dbLocations' = insertVehicleLocation(dbLocations,
                                         Row(id, e.lat, e.lon, now, now, "poll"))
              ELSE UNCHANGED dbLocations
           /\ IF InsertResolved(ok)
              THEN /\ locationCache' = broadcastLocationUpdate(locationCache)
                   /\ broadcasts' = Append(broadcasts, Event(id, e.lat, e.lon, "poll"))
                   /\ received' = FanOut(Len(broadcasts) + 1)
                   /\ Settle(s, NextRecord([c EXCEPT !.totalProcessed = @ + 1]))
              ELSE /\ Settle(s, NextRecord(c))
                   /\ UNCHANGED <<locationCache, broadcasts, received>>
    /\ UNCHANGED <<now, apiKey, pollingTimer, dbVehicles, vehicleMetadataCache, lastUpdateTime,
                   lastKnownCoords, requestVars, pollCalls, cyclesStarted, whLog, deletes,
                   adminCalls, reads, editDone, lastResp, fetched, disabledStarts, pingResponses, hookVars, normVars, wsClients,
                   readyState>>

\* time passes
Tick(d) ==
    /\ now + d <= StartNow + MaxTicks * d
    /\ now' = now + d
    /\ UNCHANGED <<apiKey, pollerVars, storageVars, cacheVars, requestVars, ghostVars, fanoutVars>>

(***************************************************************************)
(* routes: the throttle/dedup gate and the metadata cache                  *)
(***************************************************************************)
\* a gate without the throttle
shouldProcessAlways(last, t) == TRUE
\* shouldProcessLocationUpdate: last = lastUpdateTime.get(vehicleId) || 0
shouldProcessLocationUpdate(last, t) == t - last >= LOCATION_UPDATE_INTERVAL_MS

\* hasLocationChanged: prev = lastKnownCoords.get(vehicleId)
hasLocationChanged(prev, la, lo) ==
    \/ ~prev.has
    \/ ~(Abs(prev.lat - la) < THRESHOLD /\ Abs(prev.lon - lo) < THRESHOLD)

\* getVehicleMetadata: the cached entry, or { name: vehicleId, color: "#3b82f6" }
getVehicleMetadata(cache, id) ==
    IF cache[id] # NoMeta THEN cache[id] ELSE Meta(id, DEFAULT_VEHICLE_COLOR)

\* updateVehicleMetadataCache
updateVehicleMetadataCache(cache, id, m) == [cache EXCEPT ![id] = m]

(***************************************************************************)
(* routes: POST /api/webhooks/motive                                       *)
(***************************************************************************)
WSlots == {1, 2}

\* the coordinate fields of a request body, in the order the handler looks
\* at them in pairs: lat/lon, location.{lat,lon}, current_location.{lat,lon},
\* current_location.{latitude,longitude}, latitude/longitude
CoordFields ==
    <<<<"lat", "lon">>, <<"location.lat", "location.lon">>,
      <<"current_location.lat", "current_location.lon">>,
      <<"current_location.latitude", "current_location.longitude">>,
      <<"latitude", "longitude">>>>
\* the value of a field: kind "absent" (undefined), "number" (a JSON number,
\* v), "numeric" (a string that Number() parses to v), "text" (a string
\* that Number() turns into NaN)
FieldValue(k, v) == [kind |-> k, v |-> v]
NoBody == [f \in {} |-> FieldValue("absent", 0)]
\* Number(x): whether the result is finite, and the result
NumberOf(x) == [finite |-> x.kind \in {"number", "numeric"}, v |-> x.v]
\* typeof b.lat === 'number' && typeof b.lon === 'number' for the flat pair,
\* both !== undefined for the other pairs
PairTaken(b, i) ==
    IF i = 1
    THEN b[CoordFields[i][1]].kind = "number" /\ b[CoordFields[i][2]].kind = "number"
    ELSE b[CoordFields[i][1]].kind # "absent" /\ b[CoordFields[i][2]].kind # "absent"
\* the if/else-if chain: the first pair taken gives lat and lon, converted
\* with Number(); no pair taken is the answer 400 "Could not find ..."
extractLatLon(b) ==
    LET taken == {i \in 1..Len(CoordFields) : PairTaken(b, i)}
    IN  IF taken = {}
        THEN [found |-> FALSE, finite |-> FALSE, lat |-> 0, lon |-> 0]
        ELSE LET i == CHOOSE j \in taken : \A k \in taken : j <= k
                 la == NumberOf(b[CoordFields[i][1]])
                 lo == NumberOf(b[CoordFields[i][2]])
             IN  [found |-> TRUE, finite |-> la.finite /\ lo.finite,
                  lat |-> IF la.finite THEN la.v ELSE 0,
                  lon |-> IF lo.finite THEN lo.v ELSE 0]

\* the x-kt-webhook-signature header of a request
Signatures == {"none", "invalid", "valid"}
\* a handler that answers 403 unless no secret is configured or the
\* signature is valid
signatureEnforced(secret, sig) == ~secret \/ sig = "valid"
\* the signature is verified and logged when a secret is configured, and
\* the request is accepted anyway
signatureAccepted(secret, sig) == TRUE
Response(status, success, message) ==
    [status |-> status, success |-> success, message |-> message]
\* the answer to a verification ping: an array body, or an empty one
PingResponse(shape) ==
    IF shape = "array" THEN Response(200, TRUE, "Webhook endpoint verified")
    ELSE Response(200, TRUE, "Webhook received")
IdleReq == [pc |-> "idle", vid |-> RawId, lat |-> 0, lon |-> 0, entry |-> 0]

\* a request body:
\*   shape "array", "empty" : a verification ping
\*   shape "other"          : an action that is no location update
\*   shape "nocoords"       : a location update in which no pair of
\*                            coordinate fields is found (answer 400)
\*   shape "loc"            : a location update; finite = both coordinates are
\*                            finite numbers; valid = the reading passes
\*                            insertVehicleLocationSchema
Payload(shape, vid, fin, la, lo, valid) ==
    [shape |-> shape, vid |-> vid, finite |-> fin, lat |-> la, lon |-> lo, valid |-> valid,
     body |-> NoBody]

\* the request body b of a location update as the handler reads it: its
\* coordinates extracted, or none found
PayloadOf(vid, b) ==
    LET x == extractLatLon(b)
    IN  [Payload(IF x.found THEN "loc" ELSE "nocoords", vid, x.finite, x.lat, x.lon, TRUE)
            EXCEPT !.body = b]

LogEntry(p, gate, fresh) ==
    [vid |-> p.vid, at |-> now, lat |-> p.lat, lon |-> p.lon, gate |-> gate,
     fresh |-> fresh, epoch |-> deletes[p.vid], persisted |-> FALSE, broadcast |-> FALSE,
     failed |-> FALSE, body |-> p.body]

\* the handler from the request to its first await (or its response)
WebhookReceive(w, p) ==
    /\ wh[w].pc = "idle"
    /\ \A u \in WSlots : u < w => wh[u].pc # "idle"
    /\ IF p.shape \in {"array", "empty"}
       THEN /\ Len(pingResponses) < MaxPings
            /\ \E secret \in BOOLEAN, sig \in Signatures :
                   pingResponses' = Append(pingResponses,
                       IF signatureAccepted(secret, sig) THEN PingResponse(p.shape)
                       ELSE Response(403, FALSE, "signature"))
            /\ UNCHANGED <<now, apiKey, pollerVars, storageVars, cacheVars, requestVars,
                           fanoutVars, pollCalls, cyclesStarted, broadcasts, whLog, deletes,
                           adminCalls, reads, editDone, lastResp, fetched, disabledStarts,
                           normVars, hookVars>>
       ELSE IF p.shape = "nocoords"
       THEN /\ Len(whLog) < MaxWebhooks
            /\ whLog' = Append(whLog, LogEntry(p, "nocoords", FALSE))
            /\ UNCHANGED <<now, apiKey, pollerVars, storageVars, cacheVars, requestVars,
                           fanoutVars, pollCalls, cyclesStarted, broadcasts, deletes,
                           adminCalls, reads, editDone, lastResp, fetched, disabledStarts,
                           pingResponses, hookVars, normVars>>
       ELSE IF p.shape # "loc"
       THEN UNCHANGED vars
       ELSE /\ Len(whLog) < MaxWebhooks
            /\ LET passes == shouldProcessLocationUpdate(lastUpdateTime[p.vid], now)
                   changed == hasLocationChanged(lastKnownCoords[p.vid], p.lat, p.lon)
                   gate == IF ~passes THEN "throttled"
                           ELSE IF ~p.finite THEN "invalid"
                           ELSE IF ~changed THEN "unchanged"
                           ELSE "accepted"
                   fresh == lastUpdateTime[p.vid] = 0 /\ ~lastKnownCoords[p.vid].has
                   meta == getVehicleMetadata(vehicleMetadataCache, p.vid)
               IN  /\ lastUpdateTime' =
                          IF passes THEN [lastUpdateTime EXCEPT ![p.vid] = now]
                          ELSE lastUpdateTime
                   /\ lastKnownCoords' =
                          IF gate = "accepted"
                          THEN [lastKnownCoords EXCEPT ![p.vid] = Coords(p.lat, p.lon)]
                          ELSE lastKnownCoords
                   /\ whLog' = Append(whLog,
                          [LogEntry(p, gate, fresh) EXCEPT
                              !.failed = (gate = "accepted" /\ ~p.valid)])
                   /\ IF gate = "accepted" /\ p.valid
                      THEN wh' = [wh EXCEPT ![w] =
                               [pc |-> IF meta.name = p.vid THEN "upsert" ELSE "insert",
                                vid |-> p.vid, lat |-> p.lat, lon |-> p.lon,
                                entry |-> Len(whLog) + 1]]
                      ELSE UNCHANGED wh
            /\ UNCHANGED <<now, apiKey, pollerVars, storageVars, vehicleMetadataCache,
                           locationCache, rd, del, pollCalls, cyclesStarted, broadcasts,
                           deletes, adminCalls, reads, editDone, lastResp, fetched,
                           disabledStarts, pingResponses, hookVars, normVars, fanoutVars>>

\* storage.upsertVehicle returns (ok) or rejects (the catch answers 400)
WebhookUpsert(w, ok) ==
    /\ wh[w].pc = "upsert"
    /\ LET r == wh[w]
           m == Meta(r.vid, DEFAULT_VEHICLE_COLOR)
       IN  IF ok
           THEN /\ dbVehicles' = upsertVehicle(dbVehicles, r.vid, m)
                /\ vehicleMetadataCache' = updateVehicleMetadataCache(vehicleMetadataCache, r.vid, m)
                /\ wh' = [wh EXCEPT ![w].pc = "insert"]
                /\ UNCHANGED whLog
           ELSE /\ wh' = [wh EXCEPT ![w] = IdleReq]
                /\ whLog' = [whLog EXCEPT ![r.entry].failed = TRUE]
                /\ UNCHANGED <<dbVehicles, vehicleMetadataCache>>
    /\ UNCHANGED <<now, apiKey, pollerVars, dbLocations, lastUpdateTime, lastKnownCoords,
                   locationCache, rd, del, pollCalls, cyclesStarted, broadcasts, deletes,
                   adminCalls, reads, editDone, lastResp, fetched, disabledStarts, pingResponses, hookVars, normVars, fanoutVars>>

\* storage.insertVehicleLocation returns (ok) or rejects (the catch answers 400)
WebhookInsert(w, ok) ==
    /\ wh[w].pc = "insert"
    /\ LET r == wh[w]
       IN  /\ IF ok
              THEN /\ Len(dbLocations) < MaxRows
                   /\ dbLocations' = insertVehicleLocation(dbLocations,
                                         Row(r.vid, r.lat, r.lon, now, now, "webhook"))
              ELSE UNCHANGED dbLocations
           /\ IF InsertResolved(ok)
              THEN /\ locationCache' = invalidateLocationCache(locationCache)
                   /\ broadcasts' = Append(broadcasts, Event(r.vid, r.lat, r.lon, "webhook"))
                   /\ received' = FanOut(Len(broadcasts) + 1)
                   /\ whLog' = [whLog EXCEPT ![r.entry].persisted = ok,
                                             ![r.entry].broadcast = TRUE,
                                             ![r.entry].failed = ~ok]
              ELSE /\ whLog' = [whLog EXCEPT ![r.entry].failed = TRUE]
                   /\ UNCHANGED <<locationCache, broadcasts, received>>
    /\ wh' = [wh EXCEPT ![w] = IdleReq]
    /\ UNCHANGED <<now, apiKey, pollerVars, dbVehicles, vehicleMetadataCache, lastUpdateTime,
                   lastKnownCoords, rd, del, pollCalls, cyclesStarted, deletes, adminCalls,
                   reads, editDone, lastResp, fetched, disabledStarts, pingResponses, hookVars, normVars, wsClients, readyState>>

(***************************************************************************)
(* routes: POST /api/vehicles/:vehicleId and DELETE /api/vehicles/:id      *)
(***************************************************************************)
\* the edit: storage.upsertVehicle, then the metadata cache, then
\* locationCache = null (name and color are both given)
EditInvalidates(lc) == NoCache

Edit(v, m) ==
    /\ adminCalls < MaxAdmin
    /\ adminCalls' = adminCalls + 1
    /\ dbVehicles' = upsertVehicle(dbVehicles, v, m)
    /\ vehicleMetadataCache' = updateVehicleMetadataCache(vehicleMetadataCache, v, m)
    /\ locationCache' = EditInvalidates(locationCache)
    /\ editDone' = [editDone EXCEPT ![v] = m]
    /\ UNCHANGED <<now, apiKey, pollerVars, dbLocations, lastUpdateTime, lastKnownCoords,
                   requestVars, pollCalls, cyclesStarted, broadcasts, whLog, deletes, reads,
                   lastResp, fetched, disabledStarts, pingResponses, hookVars, normVars, fanoutVars>>

\* storage.deleteVehicle, first statement: delete from vehicle_locations
DeleteBegin(v) ==
    /\ del[v] = "idle"
    /\ deletes[v] < MaxDeletes
    /\ dbLocations' = deleteLocations(dbLocations, v)
    /\ del' = [del EXCEPT ![v] = "vehicles"]
    /\ UNCHANGED <<now, apiKey, pollerVars, dbVehicles, cacheVars, wh, rd, pollCalls,
                   cyclesStarted, broadcasts, whLog, deletes, adminCalls, reads, editDone,
                   lastResp, fetched, disabledStarts, pingResponses, hookVars, normVars, fanoutVars>>

\* storage.deleteVehicle, second statement: delete from vehicles; then the
\* handler clears the id's cached metadata and gate state and the location cache
DeleteFinish(v) ==
    /\ del[v] = "vehicles"
    /\ dbVehicles' = [dbVehicles EXCEPT ![v] = NoMeta]
    /\ vehicleMetadataCache' = [vehicleMetadataCache EXCEPT ![v] = NoMeta]
    /\ lastKnownCoords' = [lastKnownCoords EXCEPT ![v] = NoCoords]
    /\ lastUpdateTime' = [lastUpdateTime EXCEPT ![v] = 0]
    /\ locationCache' = NoCache
    /\ del' = [del EXCEPT ![v] = "idle"]
    /\ deletes' = [deletes EXCEPT ![v] = @ + 1]
    /\ editDone' = [editDone EXCEPT ![v] = NoMeta]
    /\ UNCHANGED <<now, apiKey, pollerVars, dbLocations, wh, rd, pollCalls, cyclesStarted,
                   broadcasts, whLog, adminCalls, reads, lastResp, fetched,
                   disabledStarts, pingResponses, hookVars, normVars, fanoutVars>>

(***************************************************************************)
(* routes: the WebSocket server                                            *)
(***************************************************************************)
\* wss.on("connection"): the connection is open and joins the subscriber set
Connect(c) ==
    /\ readyState[c] = "NONE"
    /\ readyState' = [readyState EXCEPT ![c] = "OPEN"]
    /\ wsClients' = wsClients \cup {c}
    /\ UNCHANGED <<now, apiKey, pollerVars, storageVars, cacheVars, requestVars, received,
                   ghostVars>>

\* the closing handshake of the connection begins: its readyState is CLOSING
\* until the socket is closed
BeginClose(c) ==
    /\ readyState[c] = "OPEN"
    /\ readyState' = [readyState EXCEPT ![c] = "CLOSING"]
    /\ UNCHANGED <<now, apiKey, pollerVars, storageVars, cacheVars, requestVars, wsClients,
                   received, ghostVars>>

\* ws.on("close"): the socket is closed; the connection leaves the set
OnClose(c) ==
    /\ readyState[c] \in {"OPEN", "CLOSING"}
    /\ readyState' = [readyState EXCEPT ![c] = "CLOSED"]
    /\ wsClients' = wsClients \ {c}
    /\ UNCHANGED <<now, apiKey, pollerVars, storageVars, cacheVars, requestVars, received,
                   ghostVars>>

\* ws.on("error"): the connection leaves the set, whatever its readyState
OnError(c) ==
    /\ readyState[c] \in {"OPEN", "CLOSING"}
    /\ c \in wsClients
    /\ wsClients' = wsClients \ {c}
    /\ UNCHANGED <<now, apiKey, pollerVars, storageVars, cacheVars, requestVars, readyState,
                   received, ghostVars>>

(***************************************************************************)
(* routes: GET /api/vehicles                                               *)
(***************************************************************************)
RSlots == {1, 2}
NoSnap == [id \in Ids |-> NoLoc]

\* the position storage holds as current for each id: that of its rows of
\* greatest timestamp, when they agree
CurrentPos(rows) ==
    [id \in Ids |->
        LET ps == {Loc(rows[i].lat, rows[i].lon) : i \in LatestOf(rows, id)}
        IN  IF Cardinality(ps) = 1 THEN CHOOSE q \in ps : TRUE ELSE NoLoc]

IdleRead == [pc |-> "idle", started |-> 0, snap |-> NoSnap,
             edit0 |-> [id \in Ids |-> NoMeta], pos0 |-> NoSnap]
NoResp == [valid |-> FALSE, hit |-> FALSE, data |-> NoData,
           edit0 |-> [id \in Ids |-> NoMeta], edit1 |-> [id \in Ids |-> NoMeta],
           pos0 |-> NoSnap, pos1 |-> NoSnap]

\* a cache without expiry
CacheNeverExpires(lc, t) == lc.valid
\* locationCache && (now - locationCache.timestamp) < LOCATION_CACHE_TTL_MS
CacheFresh(lc, t) == lc.valid /\ (t - lc.timestamp) < LOCATION_CACHE_TTL_MS

\* locations.map(loc => ({ id, name: meta.name, color: meta.color, location }))
MapResult(snap, cache) ==
    [id \in Ids |->
        IF snap[id].has
        THEN [has |-> TRUE, name |-> getVehicleMetadata(cache, id).name,
              color |-> getVehicleMetadata(cache, id).color,
              lat |-> snap[id].lat, lon |-> snap[id].lon]
        ELSE NoData[id]]

\* the handler up to its await: the cached result, or the storage query is sent
GetStart(r) ==
    /\ rd[r].pc = "idle"
    /\ \A u \in RSlots : u < r => rd[u].pc # "idle"
    /\ reads < MaxReads
    /\ reads' = reads + 1
    /\ IF CacheFresh(locationCache, now)
       THEN /\ lastResp' = [valid |-> TRUE, hit |-> TRUE, data |-> locationCache.data,
                            edit0 |-> editDone, edit1 |-> editDone,
                            pos0 |-> CurrentPos(dbLocations),
                            pos1 |-> CurrentPos(dbLocations)]
            /\ UNCHANGED rd
       ELSE /\ rd' = [rd EXCEPT ![r] = [pc |-> "query", started |-> now, snap |-> NoSnap,
                                        edit0 |-> editDone,
                                        pos0 |-> CurrentPos(dbLocations)]]
            /\ UNCHANGED lastResp
    /\ UNCHANGED <<now, apiKey, pollerVars, storageVars, cacheVars, wh, del, pollCalls,
                   cyclesStarted, broadcasts, whLog, deletes, adminCalls, editDone, fetched,
                   disabledStarts, pingResponses, hookVars, normVars, fanoutVars>>

\* the storage query runs
GetQuery(r) ==
    /\ rd[r].pc = "query"
    /\ \E f \in getAllVehicleLatestLocations(dbLocations) :
           rd' = [rd EXCEPT ![r].pc = "finish", ![r].snap = f]
    /\ UNCHANGED <<now, apiKey, pollerVars, storageVars, cacheVars, wh, del, ghostVars, fanoutVars>>

\* the query's result arrives: map it, cache it with the time the request began
GetFinish(r) ==
    /\ rd[r].pc = "finish"
    /\ LET result == MapResult(rd[r].snap, vehicleMetadataCache)
       IN  /\ locationCache' = [valid |-> TRUE, data |-> result, timestamp |-> rd[r].started]
           /\ lastResp' = [valid |-> TRUE, hit |-> FALSE, data |-> result,
                           edit0 |-> rd[r].edit0, edit1 |-> editDone,
                           pos0 |-> rd[r].pos0, pos1 |-> CurrentPos(dbLocations)]
    /\ rd' = [rd EXCEPT ![r] = IdleRead]
    /\ UNCHANGED <<now, apiKey, pollerVars, storageVars, vehicleMetadataCache, lastUpdateTime,
                   lastKnownCoords, wh, del, pollCalls, cyclesStarted, broadcasts, whLog,
                   deletes, adminCalls, reads, editDone, fetched, disabledStarts, pingResponses, hookVars, normVars, fanoutVars>>

(***************************************************************************)
(* client: the useWebSocket hook                                           *)
(***************************************************************************)
serverVars ==
    <<now, apiKey, pollerVars, storageVars, cacheVars, requestVars, fanoutVars, pollCalls,
      cyclesStarted, broadcasts, whLog, deletes, adminCalls, reads, editDone, lastResp,
      fetched, disabledStarts, pingResponses, normVars>>

\* a hook whose onclose schedules nothing
noTimeout(ts, id) == ts
\* setTimeout(..., 3000) in onclose: one more pending timer
setTimeout(ts, id) == ts \cup {id}
\* the effect's cleanup, on the timers: clearTimeout(reconnectTimeout.current)
cleared(ts) == ts \ {reconnectTimeout}
\* the effect's cleanup, on the sockets: ws.current.close() begins the
\* closing handshake unless the socket is closing or closed already
cleanedUp(socks) ==
    IF wsCurrent = 0 THEN socks
    ELSE [socks EXCEPT ![wsCurrent] = IF @ \in {"CONNECTING", "OPEN"} THEN "CLOSING" ELSE @]
\* connect(): ws.current = new WebSocket(wsUrl), with its handlers
connected(socks) == Append(socks, "CONNECTING")

\* the component mounts: the effect runs connect()
Mount ==
    /\ hook = "idle"
    /\ hook' = "mounted"
    /\ sockets' = connected(sockets)
    /\ wsCurrent' = Len(sockets')
    /\ UNCHANGED <<timers, reconnectTimeout, isConnected, losses, renders, serverVars>>

\* the component renders again with another onMessage: the effect's cleanup
\* runs, then the effect with its connect()
Rerender ==
    /\ hook = "mounted"
    /\ renders < MaxRenders
    /\ renders' = renders + 1
    /\ timers' = cleared(timers)
    /\ sockets' = connected(cleanedUp(sockets))
    /\ wsCurrent' = Len(sockets')
    /\ UNCHANGED <<hook, reconnectTimeout, isConnected, losses, serverVars>>

\* the component unmounts: the effect's cleanup runs
Unmount ==
    /\ hook = "mounted"
    /\ hook' = "unmounted"
    /\ timers' = cleared(timers)
    /\ sockets' = cleanedUp(sockets)
    /\ UNCHANGED <<wsCurrent, reconnectTimeout, isConnected, losses, renders, serverVars>>

\* onopen of socket i: setIsConnected(true), which React ignores once the
\* component is unmounted
WsOpen(i) ==
    /\ sockets[i] = "CONNECTING"
    /\ sockets' = [sockets EXCEPT ![i] = "OPEN"]
    /\ isConnected' = IF hook = "mounted" THEN TRUE ELSE isConnected
    /\ UNCHANGED <<hook, wsCurrent, timers, reconnectTimeout, losses, renders, serverVars>>

\* socket i is closed (the connection failed or was lost, or the closing
\* handshake begun by close() is done) and its onclose runs:
\* setIsConnected(false); reconnectTimeout.current = setTimeout(connect, 3000)
WsClose(i) ==
    /\ sockets[i] \in {"CONNECTING", "OPEN", "CLOSING"}
    /\ IF sockets[i] = "CLOSING" THEN UNCHANGED losses
       ELSE losses < MaxLosses /\ losses' = losses + 1
    /\ sockets' = [sockets EXCEPT ![i] = "CLOSED"]
    /\ isConnected' = IF hook = "mounted" THEN FALSE ELSE isConnected
    /\ reconnectTimeout' = reconnectTimeout + 1
    /\ timers' = setTimeout(timers, reconnectTimeout')
    /\ UNCHANGED <<hook, wsCurrent, renders, serverVars>>

\* reconnect timer t fires (the model does not measure its 3 s): connect()
ReconnectFire(t) ==
    /\ t \in timers
    /\ timers' = timers \ {t}
    /\ sockets' = connected(sockets)
    /\ wsCurrent' = Len(sockets')
    /\ UNCHANGED <<hook, reconnectTimeout, isConnected, losses, renders, serverVars>>

(***************************************************************************)
(* Initial state: a fresh process on an empty database                     *)
(***************************************************************************)
InitState ==
    /\ now = StartNow
    /\ pollingTimer = FALSE
    /\ isPolling = FALSE
    /\ cyc = [s \in Slots |-> IdleCycle]
    /\ dbVehicles = [id \in Ids |-> NoMeta]
    /\ dbLocations = <<>>
    /\ vehicleMetadataCache = [id \in Ids |-> NoMeta]
    /\ lastUpdateTime = [id \in Ids |-> 0]
    /\ lastKnownCoords = [id \in Ids |-> NoCoords]
    /\ locationCache = NoCache
    /\ wh = [w \in WSlots |-> IdleReq]
    /\ rd = [r \in RSlots |-> IdleRead]
    /\ del = [id \in Ids |-> "idle"]
    /\ pollCalls = 0
    /\ cyclesStarted = 0
    /\ broadcasts = <<>>
    /\ whLog = <<>>
    /\ deletes = [id \in Ids |-> 0]
    /\ adminCalls = 0
    /\ reads = 0
    /\ editDone = [id \in Ids |-> NoMeta]
    /\ lastResp = NoResp
    /\ fetched = [cls |-> "vehicles", page |-> 0, kind |-> "none", status |-> 0]
    /\ disabledStarts = 0
    /\ pingResponses = <<>>
    /\ location = NoLocation
    /\ reading = NoReading
    /\ hook = "idle"
    /\ sockets = <<>>
    /\ wsCurrent = 0
    /\ timers = {}
    /\ reconnectTimeout = 0
    /\ isConnected = FALSE
    /\ losses = 0
    /\ renders = 0
    /\ wsClients = {}
    /\ readyState = [c \in Clients |-> "NONE"]
    /\ received = [c \in Clients |-> {}]

\* a fresh process: the poll-result log is empty
InitProcess == recentPollResults = <<>> /\ InitState
\* the process started with the credential in its environment
Init == apiKey = TRUE /\ InitProcess
\* the process started without the credential
InitNoCredential == apiKey = FALSE /\ InitProcess

\* the log after n class runs of earlier cycles, none of them cleared: the
\* k-th run (vehicles, assets, vehicles, ...) persisted k readings (of
\* vehicles that have been deleted since: the tables are empty)
PastLog(n) ==
    [i \in 1..n |->
        LET k == n - i + 1
        IN  Outcome(IF k % 2 = 1 THEN "vehicles" ELSE "assets", TRUE, k)]
\* the process has been polling for a while: the log is empty, one cycle
\* short of full, or full
LogLens == {0, MAX_POLL_RESULTS - 2, MAX_POLL_RESULTS}
InitLogged ==
    /\ apiKey = TRUE
    /\ \E n \in LogLens : recentPollResults = PastLog(n)
    /\ InitState

(***************************************************************************)
(* Inputs                                                                  *)
(***************************************************************************)
GoodEntry(la, lo, label) == Entry("loc", TRUE, la, lo, label, TRUE)
RECURSIVE SeqsUpTo(_, _)
SeqsUpTo(S, n) ==
    IF n = 0 THEN {<<>>}
    ELSE SeqsUpTo(S, n - 1) \cup {Append(q, x) : q \in SeqsUpTo(S, n - 1), x \in S}

\* the pages of a listing: with a total page count (absent, read as 1, or
\* MaxPages) and as many records as the array holds, or without pagination
\* and either short or full (PER_PAGE long, the further records having no
\* location)
PagesOf(entries) ==
    {Page(recs, Len(recs), Pagination(n)) :
        recs \in SeqsUpTo(entries, MaxPageLen) \ {<<>>}, n \in {0, MaxPages}}
    \cup {Page(recs, len, NoPagination) :
            recs \in SeqsUpTo(entries, MaxPageLen) \ {<<>>}, len \in {MaxPageLen, PER_PAGE}}

Failures == {NetworkError, HttpError(500), HttpError(404)}
EmptyPage == Page(<<>>, 0, NoPagination)

PollResponses ==
    Failures \cup {EmptyPage}
    \cup PagesOf({NullEntry, GoodEntry(4354000, -9673000, "")})

\* a record whose latitude and longitude are both exactly 0
ZeroEntry == Entry("loc", TRUE, 0, 0, "", TRUE)

\* an administrative edit gives a name (a custom one, or the id itself) and a color
EditMetas(v) == {Meta("Custom", "#ff0000"), Meta(v, "#ff0000")}

(***************************************************************************)
(* Specifications                                                          *)
(***************************************************************************)
PollerNext ==
    \/ StartPolling
    \/ TimerFire
    \/ PollNow
    \/ StopPolling
    \/ \E s \in Slots, resp \in PollResponses : PFetch(s, resp)
    \/ \E s \in Slots, ok \in BOOLEAN : PGetVehicle(s, ok)
    \/ \E s \in Slots, ok \in BOOLEAN : PUpsert(s, ok)
    \/ \E s \in Slots, ok \in BOOLEAN : PInsert(s, ok)

\* the polling service alone
NextPoll == PollerNext
SpecPoll == Init /\ [][NextPoll]_vars

\* the webhook with its gate, and time
GatePayloads ==
    {Payload("other", RawId, FALSE, 0, 0, FALSE),
     Payload("loc", RawId, FALSE, 0, 0, TRUE),
     Payload("loc", RawId, TRUE, 4354000, -9673000, FALSE),
     Payload("loc", RawId, TRUE, 4354000, -9673000, TRUE),
     Payload("loc", RawId, TRUE, 4354005, -9673000, TRUE),
     Payload("loc", RawId, TRUE, 4354005, -9673020, TRUE)}
NextGate ==
    \/ \E w \in WSlots, p \in GatePayloads : WebhookReceive(w, p)
    \/ \E w \in WSlots, ok \in BOOLEAN : WebhookUpsert(w, ok)
    \/ \E w \in WSlots, ok \in BOOLEAN : WebhookInsert(w, ok)
    \/ Tick(LOCATION_UPDATE_INTERVAL_MS \div 2)
SpecGate == Init /\ [][NextGate]_vars

\* ingestion by poll cycle and by webhook next to the administrative operations
MetaResponses ==
    {EmptyPage, Page(<<NoLocEntry, GoodEntry(4354000, -9673000, "")>>, 2, Pagination(1))}
MetaPayloads ==
    {Payload("empty", RawId, FALSE, 0, 0, FALSE),
     Payload("loc", RawId, TRUE, 4354000, -9673000, TRUE)}
NextMeta ==
    \/ PollNow
    \/ \E s \in Slots, resp \in MetaResponses : PFetch(s, resp)
    \/ \E s \in Slots : PGetVehicle(s, TRUE)
    \/ \E s \in Slots : PUpsert(s, TRUE)
    \/ \E s \in Slots : PInsert(s, TRUE)
    \/ \E p \in MetaPayloads : WebhookReceive(1, p)
    \/ WebhookUpsert(1, TRUE)
    \/ WebhookInsert(1, TRUE)
    \/ \E m \in EditMetas(RawId) : Edit(RawId, m)
    \/ DeleteBegin(RawId)
    \/ DeleteFinish(RawId)
SpecMeta == Init /\ [][NextMeta]_vars

\* the Latest-Locations reads next to the writes: readings by webhook,
\* administrative edits, and time
CachePayloads ==
    {Payload("empty", RawId, FALSE, 0, 0, FALSE),
     Payload("loc", RawId, TRUE, 4354000, -9673000, TRUE),
     Payload("loc", RawId, TRUE, 4354005, -9673020, TRUE)}
NextCache ==
    \/ \E p \in CachePayloads : WebhookReceive(1, p)
    \/ WebhookUpsert(1, TRUE)
    \/ WebhookInsert(1, TRUE)
    \/ \E m \in EditMetas(RawId) : Edit(RawId, m)
    \/ GetStart(1)
    \/ GetQuery(1)
    \/ GetFinish(1)
    \/ Tick(LOCATION_CACHE_TTL_MS \div 2)
SpecCache == Init /\ [][NextCache]_vars

\* both ingestion paths with their storage failures, within one throttle
\* window: a poll cycle over both classes and the webhook, fed records with
\* and without the coordinates (0, 0)
IngestResponses ==
    {EmptyPage, Page(<<ZeroEntry, GoodEntry(4354000, -9673000, "")>>, 2, Pagination(1))}
IngestPayloads ==
    {Payload("loc", RawId, TRUE, 0, 0, TRUE),
     Payload("loc", RawId, TRUE, 4354000, -9673000, TRUE)}
NextIngest ==
    \/ PollNow
    \/ \E s \in Slots, resp \in IngestResponses : PFetch(s, resp)
    \/ \E s \in Slots, ok \in BOOLEAN : PGetVehicle(s, ok)
    \/ \E s \in Slots, ok \in BOOLEAN : PUpsert(s, ok)
    \/ \E s \in Slots, ok \in BOOLEAN : PInsert(s, ok)
    \/ \E p \in IngestPayloads : WebhookReceive(1, p)
    \/ \E ok \in BOOLEAN : WebhookUpsert(1, ok)
    \/ \E ok \in BOOLEAN : WebhookInsert(1, ok)
SpecIngest == Init /\ [][NextIngest]_vars

\* the polling service against an upstream whose every response carries a
\* non-empty page and the same explicit total page count
UpstreamPages == MaxPages
PagedResponses ==
    {Page(recs, Len(recs), Pagination(UpstreamPages)) :
        recs \in SeqsUpTo({NullEntry, NoLocEntry, GoodEntry(4354000, -9673000, "")},
                          MaxPageLen) \ {<<>>}}
NextPages ==
    \/ PollNow
    \/ \E s \in Slots, resp \in PagedResponses : PFetch(s, resp)
    \/ \E s \in Slots, ok \in BOOLEAN : PGetVehicle(s, ok)
    \/ \E s \in Slots, ok \in BOOLEAN : PUpsert(s, ok)
    \/ \E s \in Slots, ok \in BOOLEAN : PInsert(s, ok)
SpecPages == Init /\ [][NextPages]_vars

\* the polling service against an upstream that may announce a further page
\* with every response; every HTTP call and every storage call in progress
\* eventually returns or fails
LiveResponses ==
    {HttpError(500), EmptyPage,
     Page(<<GoodEntry(4354000, -9673000, "")>>, 1, Pagination(1)),
     Page(<<GoodEntry(4354000, -9673000, "")>>, PER_PAGE, NoPagination)}
NextLive ==
    \/ PollNow
    \/ \E s \in Slots, resp \in LiveResponses : PResponse(s, resp)
    \/ \E s \in Slots, ok \in BOOLEAN : PGetVehicle(s, ok)
    \/ \E s \in Slots, ok \in BOOLEAN : PUpsert(s, ok)
    \/ \E s \in Slots, ok \in BOOLEAN : PInsert(s, ok)
SpecLive ==
    /\ Init
    /\ [][NextLive]_vars
    /\ WF_vars(\E s \in Slots, resp \in LiveResponses : PResponse(s, resp))
    /\ WF_vars(\E s \in Slots, ok \in BOOLEAN : PGetVehicle(s, ok))
    /\ WF_vars(\E s \in Slots, ok \in BOOLEAN : PUpsert(s, ok))
    /\ WF_vars(\E s \in Slots, ok \in BOOLEAN : PInsert(s, ok))

\* the polling service in a process started without the credential, which
\* may be provided later
CredResponses ==
    {HttpError(500), EmptyPage, Page(<<GoodEntry(4354000, -9673000, "")>>, 1, Pagination(1))}
NextCred ==
    \/ StartPolling
    \/ TimerFire
    \/ PollNow
    \/ StopPolling
    \/ SetCredential
    \/ \E s \in Slots, resp \in CredResponses : PFetch(s, resp)
    \/ \E s \in Slots : PGetVehicle(s, TRUE)
    \/ \E s \in Slots : PUpsert(s, TRUE)
    \/ \E s \in Slots : PInsert(s, TRUE)
SpecCred == InitNoCredential /\ [][NextCred]_vars

\* the polling service and clearPollResults, on a log that earlier cycles
\* have filled
LogResponses ==
    {HttpError(500), EmptyPage, Page(<<GoodEntry(4354000, -9673000, "")>>, 1, Pagination(1))}
NextLog ==
    \/ PollNow
    \/ ClearPollResults
    \/ \E s \in Slots, resp \in LogResponses : PFetch(s, resp)
    \/ \E s \in Slots : PGetVehicle(s, TRUE)
    \/ \E s \in Slots : PUpsert(s, TRUE)
    \/ \E s \in Slots : PInsert(s, TRUE)
SpecLog == InitLogged /\ [][NextLog]_vars

\* the webhook's broadcast next to the subscribers' connections coming and
\* going, within one throttle window: readings of two vehicles
FanoutPayloads ==
    {Payload("loc", RawId, TRUE, 4354000, -9673000, TRUE),
     Payload("loc", AssetId(RawId), TRUE, 4354000, -9673000, TRUE)}
NextFanout ==
    \/ \E p \in FanoutPayloads : WebhookReceive(1, p)
    \/ WebhookUpsert(1, TRUE)
    \/ WebhookInsert(1, TRUE)
    \/ \E c \in Clients : Connect(c)
    \/ \E c \in Clients : BeginClose(c)
    \/ \E c \in Clients : OnClose(c)
    \/ \E c \in Clients : OnError(c)
SpecFanout == Init /\ [][NextFanout]_vars

\* verification pings next to the webhook's location updates and the
\* Latest-Locations reads, within one throttle window
PingPayloads ==
    {Payload("array", RawId, FALSE, 0, 0, FALSE),
     Payload("empty", RawId, FALSE, 0, 0, FALSE),
     Payload("loc", RawId, TRUE, 4354000, -9673000, TRUE)}
NextPing ==
    \/ \E w \in WSlots, p \in PingPayloads : WebhookReceive(w, p)
    \/ \E w \in WSlots : WebhookUpsert(w, TRUE)
    \/ \E w \in WSlots : WebhookInsert(w, TRUE)
    \/ \E c \in Clients : Connect(c)
    \/ GetStart(1)
    \/ GetQuery(1)
    \/ GetFinish(1)
SpecPing == Init /\ [][NextPing]_vars

\* Latest-Locations reads, two at a time, across the expiry of the cache,
\* next to a webhook reading that invalidates it
TtlPayloads == {Payload("loc", RawId, TRUE, 4354000, -9673000, TRUE)}
NextTtl ==
    \/ \E p \in TtlPayloads : WebhookReceive(1, p)
    \/ WebhookUpsert(1, TRUE)
    \/ WebhookInsert(1, TRUE)
    \/ \E r \in RSlots : GetStart(r)
    \/ \E r \in RSlots : GetQuery(r)
    \/ \E r \in RSlots : GetFinish(r)
    \/ Tick(LOCATION_CACHE_TTL_MS \div 2)
SpecTtl == Init /\ [][NextTtl]_vars

\* one location update by webhook for a vehicle not seen before, its body
\* holding each pair of coordinate fields as: both absent, both numbers,
\* both strings of numbers, or a string that is no number and a number
\* (the last pair: absent or numbers); the numbers differ from pair to pair
FieldNames == {CoordFields[i][j] : i \in 1..Len(CoordFields), j \in 1..2}
PairValues(i, k) ==
    LET la == 4354000 + i
        lo == -9673000 - i
    IN  CASE k = "absent" -> <<FieldValue("absent", 0), FieldValue("absent", 0)>>
          [] k = "number" -> <<FieldValue("number", la), FieldValue("number", lo)>>
          [] k = "numeric" -> <<FieldValue("numeric", la), FieldValue("numeric", lo)>>
          [] k = "text" -> <<FieldValue("text", 0), FieldValue("number", lo)>>
Bodies ==
    {[f \in FieldNames |->
         LET i == CHOOSE n \in 1..Len(CoordFields) : f \in {CoordFields[n][1], CoordFields[n][2]}
         IN  PairValues(i, o[i])[IF f = CoordFields[i][1] THEN 1 ELSE 2]] :
     o \in {c \in [1..Len(CoordFields) -> {"absent", "number", "numeric", "text"}] :
               c[Len(CoordFields)] \in {"absent", "number"}}}
NextExtract ==
    \/ \E b \in Bodies : whLog = <<>> /\ WebhookReceive(1, PayloadOf(RawId, b))
    \/ WebhookUpsert(1, TRUE)
    \/ WebhookInsert(1, TRUE)
SpecExtract == Init /\ [][NextExtract]_vars

\* the poller's speed and status for one record, over location objects of
\* vehicles and assets with and without each of their speed fields
VehicleLocations ==
    {Location("vehicles", s, k, sk, Absent, vs, FALSE) :
        s \in {Absent, 0, 50, 100}, k \in {Absent, 0, 80, 100}, sk \in {Absent, 100},
        vs \in {"", "driving"}}
AssetLocations ==
    {Location("assets", s, Absent, sk, g, "", m) :
        s \in {Absent, 0, 50, 100}, sk \in {Absent, 100}, g \in {Absent, 0, 100},
        m \in BOOLEAN}
NextNormalize ==
    \/ \E cl \in VehicleLocations : Normalize(cl)
    \/ \E cl \in AssetLocations : Normalize(cl)
SpecNormalize == Init /\ [][NextNormalize]_vars

\* one component with the hook: it mounts, its connections open and are
\* lost, it renders again and unmounts; a pending reconnect timer fires
\* sooner or later
NextHook ==
    \/ Mount
    \/ Rerender
    \/ Unmount
    \/ \E i \in 1..Len(sockets) : WsOpen(i)
    \/ \E i \in 1..Len(sockets) : WsClose(i)
    \/ \E t \in timers : ReconnectFire(t)
SpecHook ==
    /\ Init
    /\ [][NextHook]_vars
    /\ \A t \in 1..(MaxLosses + MaxRenders + 1) : WF_vars(ReconnectFire(t))

(***************************************************************************)
(* The polling service: cycles, class runs, records                        *)
(***************************************************************************)
RunningCycles == {s \in Slots : cyc[s].pc # "idle"}
\* this step is an invocation of pollAll
Invoked == pollCalls' = pollCalls + 1
\* in this step the class run of slot s handles the response to its page request
FetchStep(s) == cyc[s].pc = "fetch" /\ cyc'[s] # cyc[s]
\* in this step the class run of slot s works on the records of a page it received
RecordStep(s) ==
    /\ cyc'[s] # cyc[s]
    /\ \/ cyc[s].pc \in {"getVehicle", "upsert", "insert"}
       \/ cyc[s].pc = "fetch" /\ fetched'.kind = "ok"
\* in this step one more PollOutcome is recorded, and o is the newest
Recorded(o) ==
    /\ Len(recentPollResults') = Len(recentPollResults) + 1
    /\ Head(recentPollResults') = o
\* in this step the class run of slot s is over; after the vehicles the assets
\* are requested, after the assets the cycle is over
ClassRunOver(s) ==
    cyc'[s] = IF cyc[s].cls = "vehicles" THEN StartClass("assets") ELSE IdleCycle

\* C1: at most one poll cycle is in progress at any time; an invocation of
\* pollAll while a cycle is in progress returns at once without any effect on
\* the cycle, the outcomes, the storage or the broadcasts; and a cycle starts
\* only in the step of an invocation made while no cycle was in progress, so
\* a skipped invocation never starts a cycle later.
C1_MutualExclusion ==
    [][/\ Cardinality(RunningCycles') <= 1
       /\ (Invoked /\ RunningCycles # {}) =>
              UNCHANGED <<cyc, isPolling, cyclesStarted, recentPollResults, storageVars,
                          cacheVars, broadcasts>>
       /\ \A s \in Slots :
              (cyc[s].pc = "idle" /\ cyc'[s].pc # "idle") =>
                  Invoked /\ RunningCycles = {} /\ cyclesStarted' = cyclesStarted + 1
       /\ cyclesStarted' # cyclesStarted => Invoked /\ RunningCycles = {}]_vars
\* pollAll was invoked while a cycle was in progress, and was skipped
C1_Witness == pollCalls > cyclesStarted /\ RunningCycles # {} /\ cyclesStarted = 1

\* C2 as stated: any non-success status or exception of a page request
\* records a failed PollOutcome for the class, ends the class run, and the
\* other class still runs in the same cycle.
C2_AnyFailureRecordsFailed ==
    [][\A s \in Slots :
          (FetchStep(s) /\ fetched'.kind \in {"http", "throw"}) =>
              /\ Recorded(Outcome(cyc[s].cls, FALSE, 0))
              /\ ClassRunOver(s)]_vars
\* a page request that failed otherwise than by a 404: a network error, or a
\* non-success status other than 404
FailedResponse(f) == f.kind = "throw" \/ (f.kind = "http" /\ f.status # 404)
\* C2 amended: a page request that throws a network error or returns a
\* non-success status other than 404 records a failed PollOutcome for its
\* class and ends the class run; the vehicles run is followed by the assets
\* request in the same cycle, and a class that is over is not requested again
\* in the cycle.
C2_FailureRecordsFailedExcept404 ==
    [][\A s \in Slots :
          /\ (FetchStep(s) /\ FailedResponse(fetched')) =>
                 /\ Recorded(Outcome(cyc[s].cls, FALSE, 0))
                 /\ ClassRunOver(s)
          /\ (cyc[s].pc # "idle" /\ cyc[s].cls = "assets") =>
                 (cyc'[s].pc = "idle" \/ cyc'[s].cls = "assets")]_vars
\* the vehicles request failed with status 500: the failure is recorded and
\* the assets request is in flight
C2_Witness ==
    /\ fetched = [cls |-> "vehicles", page |-> 1, kind |-> "http", status |-> 500]
    /\ recentPollResults # <<>>
    /\ Head(recentPollResults) = Outcome("vehicles", FALSE, 0)
    /\ \E s \in Slots : cyc[s] = StartClass("assets")

\* C3 as stated: a failure on one record only skips that record, so once a
\* page was received the class run is not ended as failed by the work on its
\* records.
C3_RecordFailureSkipsOnlyRecord ==
    [][\A s \in Slots :
          (RecordStep(s) /\ Len(recentPollResults') > Len(recentPollResults)) =>
              Head(recentPollResults').success]_vars

\* C5 as stated: the poll pipeline passes its records through the gate, so no
\* two polled rows of one vehicle with the same coordinates are persisted
\* less than the throttle window apart.
C5_PollRecordsGated ==
    \A i, j \in 1..Len(dbLocations) :
        (/\ i < j
         /\ dbLocations[i].via = "poll" /\ dbLocations[j].via = "poll"
         /\ dbLocations[i].vehicleId = dbLocations[j].vehicleId
         /\ dbLocations[i].lat = dbLocations[j].lat
         /\ dbLocations[i].lon = dbLocations[j].lon)
        => dbLocations[j].receivedAt - dbLocations[i].receivedAt
               >= LOCATION_UPDATE_INTERVAL_MS

\* in this step the activation of slot s sends a page request
RequestStep(s) ==
    /\ cyc'[s].pc = "fetch"
    /\ \/ cyc[s].pc # "fetch"
       \/ cyc[s].cls # cyc'[s].cls
       \/ cyc[s].page # cyc'[s].page
\* the activation of slot s is in the same class run before and after the step
SameRun(s) == cyc[s].pc # "idle" /\ cyc'[s].pc # "idle" /\ cyc[s].cls = cyc'[s].cls
\* in this step the class run of slot s ends and records its outcome
RunEnds(s) == cyc[s].pc # "idle" /\ ClassRunOver(s)

\* C12 as stated: against an upstream whose every response carries a
\* non-empty page and the explicit total page count N = UpstreamPages, a
\* class run requests the pages 1, 2, ..., N in that order and exactly N
\* pages: its first request is page 1, each further request is the next
\* page, no request is for a page beyond N, and the run ends only on page N.
C12_RequestsExactlyTotalPages ==
    [][\A s \in Slots :
          /\ RequestStep(s) =>
                 /\ cyc'[s].page = IF SameRun(s) THEN cyc[s].page + 1 ELSE 1
                 /\ cyc'[s].page <= UpstreamPages
          /\ RunEnds(s) => cyc[s].page = UpstreamPages]_vars

\* in this step the cycle of slot s returns to idle
CycleEnds(s) == cyc[s].pc # "idle" /\ cyc'[s].pc = "idle"
\* in this step a cycle starts in slot s
CycleStarts(s) == cyc[s].pc = "idle" /\ cyc'[s].pc # "idle"

\* C14: a cycle goes from running back to idle only after both attempts of
\* that cycle have finished, vehicles first and assets second: a cycle starts
\* with the vehicles request; the vehicles run, when it ends by success or by
\* failure, records its outcome and is followed by the assets request, never
\* by idle; the cycle returns to idle, and the running flag is cleared, only
\* in the step in which the assets run ends and records its outcome, the
\* vehicles outcome of the cycle being the entry before it; so after every
\* step that leaves no cycle running, every cycle that was started has
\* recorded both outcomes.
C14_IdleOnlyAfterBothClasses ==
    [][/\ RunningCycles' = {} =>
              /\ ~isPolling'
              /\ Len(recentPollResults') = 2 * cyclesStarted'
       /\ (isPolling /\ ~isPolling') => \E s \in Slots : CycleEnds(s)
       /\ \A s \in Slots :
              /\ CycleStarts(s) => cyc'[s] = StartClass("vehicles")
              /\ (cyc[s].pc # "idle" /\ cyc[s].cls = "vehicles" /\ cyc'[s].cls # "vehicles") =>
                     /\ cyc'[s] = StartClass("assets")
                     /\ Len(recentPollResults') = Len(recentPollResults) + 1
                     /\ Head(recentPollResults').type = "vehicles"
              /\ CycleEnds(s) =>
                     /\ ~isPolling'
                     /\ cyc[s].cls = "assets"
                     /\ Len(recentPollResults') = Len(recentPollResults) + 1
                     /\ Head(recentPollResults').type = "assets"
                     /\ Len(recentPollResults') >= 2
                     /\ recentPollResults'[2].type = "vehicles"]_vars
\* a cycle whose vehicles run failed is back at idle, the assets run having
\* been attempted after the failure
C14_Witness ==
    /\ RunningCycles = {}
    /\ cyclesStarted = 1
    /\ Len(recentPollResults) = 2
    /\ recentPollResults[2] = Outcome("vehicles", FALSE, 0)
    /\ recentPollResults[1].type = "assets"
    /\ fetched.cls = "assets"

\* C27: with the credential present, the log changes only in a step that
\* ends a class run, which adds exactly one outcome, of that run's class,
\* however the run ended; when a cycle ends, its two outcomes are the two
\* newest entries, the assets outcome before (newer than) the vehicles
\* outcome, and every cycle started so far has added exactly two; the log
\* never holds more than two entries per cycle started; and an invocation
\* skipped by the running flag adds none.
C27_TwoOutcomesPerCycle ==
    [][/\ recentPollResults' # recentPollResults => \E s \in Slots : RunEnds(s)
       /\ \A s \in Slots :
              RunEnds(s) =>
                  /\ Len(recentPollResults') = Len(recentPollResults) + 1
                  /\ recentPollResults'[1].type = cyc[s].cls
                  /\ SubSeq(recentPollResults', 2, Len(recentPollResults')) = recentPollResults
       /\ \A s \in Slots :
              CycleEnds(s) =>
                  /\ Len(recentPollResults') = 2 * cyclesStarted'
                  /\ recentPollResults'[1].type = "assets"
                  /\ recentPollResults'[2].type = "vehicles"
       /\ Len(recentPollResults') <= 2 * cyclesStarted'
       /\ (Invoked /\ cyclesStarted' = cyclesStarted) =>
              recentPollResults' = recentPollResults]_vars
\* a cycle has ended whose vehicles run was ended by an error thrown while
\* a page was worked on and whose assets run met 404, with two entries in
\* the log, and a second invocation was skipped while it ran
C27_Witness ==
    /\ RunningCycles = {}
    /\ cyclesStarted = 1 /\ pollCalls = 2
    /\ recentPollResults = <<Outcome("assets", TRUE, 0), Outcome("vehicles", FALSE, 0)>>
    /\ fetched.cls = "assets" /\ fetched.kind = "http" /\ fetched.status = 404

\* C16: while the credential is absent, no timer is armed, no class run is
\* in progress and no PollOutcome, failed or other, is recorded; a call of
\* startPolling that finds no credential changes nothing of the polling
\* service; and the timer is armed only by a startPolling that finds the
\* credential present, in the step in which it also invokes pollAll.
C16_NoCredentialNoPolling ==
    [][/\ ~apiKey' =>
              /\ ~pollingTimer'
              /\ RunningCycles' = {}
              /\ ~isPolling'
              /\ recentPollResults' = <<>>
       /\ disabledStarts' # disabledStarts =>
              /\ ~apiKey
              /\ UNCHANGED <<pollerVars, storageVars, broadcasts, pollCalls, cyclesStarted>>
       /\ (~pollingTimer /\ pollingTimer') => (apiKey /\ Invoked)]_vars
\* startPolling found no credential and armed nothing; the credential was
\* provided, and a later startPolling armed the timer and started a cycle
C16_Witness ==
    /\ disabledStarts = 1
    /\ apiKey
    /\ pollingTimer
    /\ RunningCycles # {}

\* C17 as stated: for each telemetry class, a page request answered with
\* HTTP 404 is recorded as a PollOutcome with success = true and count 0,
\* not as a failure.
C17_AbsentEndpointIsEmptySuccess ==
    [][\A s \in Slots :
          (FetchStep(s) /\ fetched'.kind = "http" /\ fetched'.status = 404) =>
              Recorded(Outcome(cyc[s].cls, TRUE, 0))]_vars

\* the readings of class cls that polling has persisted
PolledRows(rows, cls) ==
    {i \in RowsOf(rows, VehicleIdOf(cls)) : rows[i].via = "poll"}

\* C18 as stated: a class run that ends in success records a PollOutcome
\* whose count is the number of readings persisted for the class during the
\* run, whichever page the run ends on (stated for the first cycle, in which
\* every polled row of the class was written by that run).
C18_SuccessCountsPersisted ==
    [][\A s \in Slots :
          (RunEnds(s) /\ cyclesStarted = 1 /\ Head(recentPollResults').success) =>
              Head(recentPollResults').vehicleCount =
                  Cardinality(PolledRows(dbLocations', cyc[s].cls))]_vars

\* C19: the poll-result log holds at most MAX_POLL_RESULTS entries, most
\* recent first: a step that records an outcome puts it at the head and
\* moves every earlier entry one place back, in the same order, dropping the
\* last (oldest) entry exactly when the log was full; and clearPollResults
\* leaves the log empty.
C19_LogBoundedNewestFirst ==
    [][/\ Len(recentPollResults') <= MAX_POLL_RESULTS
       /\ adminCalls' # adminCalls => recentPollResults' = <<>>
       /\ (recentPollResults' # recentPollResults /\ adminCalls' = adminCalls) =>
              /\ \E s \in Slots : RunEnds(s) /\ Head(recentPollResults').type = cyc[s].cls
              /\ Len(recentPollResults') =
                     IF Len(recentPollResults) = MAX_POLL_RESULTS
                     THEN MAX_POLL_RESULTS
                     ELSE Len(recentPollResults) + 1
              /\ \A i \in 2..Len(recentPollResults') :
                     recentPollResults'[i] = recentPollResults[i - 1]]_vars
\* an outcome was added to the full log: the oldest entry is gone, the one
\* before it is now the last, and the newest is at the head
C19_Witness ==
    /\ Len(recentPollResults) = MAX_POLL_RESULTS
    /\ recentPollResults[MAX_POLL_RESULTS] = PastLog(MAX_POLL_RESULTS)[MAX_POLL_RESULTS - 1]
    /\ recentPollResults[2] = PastLog(MAX_POLL_RESULTS)[1]
    /\ recentPollResults[1].type = "vehicles"
    /\ cyclesStarted = 1

\* C13 as stated: every started poll cycle runs to completion and returns to
\* idle, provided each upstream HTTP call and each storage call eventually
\* returns or fails: the running flag, once set, is eventually cleared.
C13_EveryCycleCompletes == isPolling ~> ~isPolling

(***************************************************************************)
(* The throttle/dedup gate of the webhook                                  *)
(***************************************************************************)
\* entries i and j of the webhook log are readings of one vehicle, i before
\* j, with no deletion of the vehicle in between
SameVehicle(i, j) ==
    /\ i < j
    /\ whLog[i].vid = whLog[j].vid
    /\ whLog[i].epoch = whLog[j].epoch
WithinWindow(i, j) == whLog[j].at - whLog[i].at < LOCATION_UPDATE_INTERVAL_MS
InFlight(i) == \E w \in WSlots : wh[w].pc # "idle" /\ wh[w].entry = i
\* i is the last reading the gate accepted before j
LastAccepted(i, j) ==
    /\ SameVehicle(i, j)
    /\ whLog[i].gate = "accepted"
    /\ \A k \in (i + 1)..(j - 1) : SameVehicle(i, k) => whLog[k].gate # "accepted"
WithinThreshold(i, j) ==
    /\ Abs(whLog[i].lat - whLog[j].lat) < THRESHOLD
    /\ Abs(whLog[i].lon - whLog[j].lon) < THRESHOLD

\* C4: for a fixed vehicle the gate lets at most one reading through per
\* throttle window, and only a reading the gate let through is persisted or
\* broadcast; the first reading of a vehicle is let through when its
\* coordinates are numbers and is persisted and broadcast unless its
\* validation or a storage call fails, so of two readings within the window
\* exactly one, the first, is persisted; and a reading after the window whose
\* latitude and longitude are both within the spatial threshold of the last
\* accepted reading is not let through, hence neither persisted nor broadcast.
C4_GateThrottleAndDedup ==
    \A j \in 1..Len(whLog) :
        /\ (whLog[j].persisted \/ whLog[j].broadcast) => whLog[j].gate = "accepted"
        /\ (whLog[j].fresh /\ whLog[j].gate # "invalid") =>
               /\ whLog[j].gate = "accepted"
               /\ (~InFlight(j) /\ ~whLog[j].failed) =>
                      (whLog[j].persisted /\ whLog[j].broadcast)
        /\ \A i \in 1..Len(whLog) :
               /\ (SameVehicle(i, j) /\ WithinWindow(i, j)) =>
                      ~(whLog[i].gate = "accepted" /\ whLog[j].gate = "accepted")
               /\ (LastAccepted(i, j) /\ WithinThreshold(i, j)) =>
                      whLog[j].gate # "accepted"
\* three readings of one vehicle: the first persisted, the second within the
\* window throttled, the third after the window but within the threshold of
\* the first suppressed as unchanged
C4_Witness ==
    /\ Len(whLog) = 3
    /\ SameVehicle(1, 2) /\ SameVehicle(2, 3)
    /\ whLog[1].fresh /\ whLog[1].persisted /\ whLog[1].broadcast
    /\ whLog[2].at > whLog[1].at /\ WithinWindow(1, 2) /\ whLog[2].gate = "throttled"
    /\ ~WithinWindow(1, 3) /\ WithinThreshold(1, 3)
    /\ whLog[3].lat # whLog[1].lat
    /\ whLog[3].gate = "unchanged"
    /\ Len(dbLocations) = 1

\* in this step the webhook receives a reading of vehicle v that passes both
\* the throttle and the spatial check
AcceptStep(v) ==
    /\ Len(whLog') = Len(whLog) + 1
    /\ whLog'[Len(whLog')].vid = v
    /\ whLog'[Len(whLog')].gate = "accepted"
\* C6 as stated: the gate's state of a vehicle (last-accepted time and
\* coordinates) changes only when a reading of that vehicle passes both the
\* throttle and the spatial check (the deletion of the vehicle, which clears
\* its state, aside).
C6_GateStateChangesOnlyOnAccept ==
    [][\A v \in Ids :
          (/\ (lastUpdateTime'[v] # lastUpdateTime[v] \/ lastKnownCoords'[v] # lastKnownCoords[v])
           /\ deletes'[v] = deletes[v])
          => AcceptStep(v)]_vars

\* C29 as stated: when no webhook request is in progress, the coordinates
\* the gate holds as last accepted for a vehicle are those of the reading
\* of the vehicle persisted last, also after requests whose validation,
\* vehicle upsert or insert failed after the gate.
C29_GateCoordsArePersisted ==
    (\A w \in WSlots : wh[w].pc = "idle") =>
        \A v \in Ids :
            lastKnownCoords[v].has =>
                /\ RowsOf(dbLocations, v) # {}
                /\ LET i == CHOOSE k \in RowsOf(dbLocations, v) :
                                \A j \in RowsOf(dbLocations, v) : j <= k
                   IN  /\ dbLocations[i].lat = lastKnownCoords[v].lat
                       /\ dbLocations[i].lon = lastKnownCoords[v].lon

(***************************************************************************)
(* Metadata, its cache, and the Latest-Locations cache                     *)
(***************************************************************************)
\* no request is in progress
Quiescent ==
    /\ \A s \in Slots : cyc[s].pc = "idle"
    /\ \A w \in WSlots : wh[w].pc = "idle"
    /\ \A r \in RSlots : rd[r].pc = "idle"
    /\ \A v \in Ids : del[v] = "idle"

\* C7 as stated: once an administrative edit has set the name and color of
\* an id, no ingested reading changes them: while the id is not being
\* deleted, storage holds what the last completed edit set.
C7_CustomNeverOverwritten ==
    \A v \in Ids :
        (editDone[v] # NoMeta /\ del[v] = "idle") => dbVehicles[v] = editDone[v]

\* C8 as stated: when no request is in progress, the metadata cache gives
\* for every id held in storage the name and color held in storage, and
\* caches no id that storage does not hold.
C8_CacheEqualsStorage ==
    Quiescent =>
        \A v \in Ids :
            /\ dbVehicles[v] # NoMeta =>
                   getVehicleMetadata(vehicleMetadataCache, v) = dbVehicles[v]
            /\ vehicleMetadataCache[v] # NoMeta => dbVehicles[v] = vehicleMetadataCache[v]

\* C9 as stated: a Latest-Locations read that begins after an administrative
\* edit of a vehicle has completed, with no later edit or deletion of the
\* vehicle up to the response, returns the vehicle with the name and color
\* of that edit.
C9_EditVisibleToNextRead ==
    \A v \in Ids :
        (/\ lastResp.valid
         /\ lastResp.edit0[v] # NoMeta
         /\ lastResp.edit1[v] = lastResp.edit0[v]
         /\ lastResp.data[v].has)
        => /\ lastResp.data[v].name = lastResp.edit0[v].name
           /\ lastResp.data[v].color = lastResp.edit0[v].color

\* C10 as stated: a Latest-Locations read that begins after a reading has
\* been persisted returns that reading's position: the position storage
\* holds as current when the read begins, and still holds at the response,
\* is the position the response gives.
C10_WriteVisibleToNextRead ==
    \A v \in Ids :
        (/\ lastResp.valid
         /\ lastResp.pos0[v].has
         /\ lastResp.pos1[v] = lastResp.pos0[v])
        => /\ lastResp.data[v].has
           /\ lastResp.data[v].lat = lastResp.pos0[v].lat
           /\ lastResp.data[v].lon = lastResp.pos0[v].lon

(***************************************************************************)
(* Readings: what is persisted and what is broadcast                       *)
(***************************************************************************)
\* the event and the row are of the same reading
SameReading(ev, row) ==
    /\ ev.vehicleId = row.vehicleId
    /\ ev.lat = row.lat
    /\ ev.lon = row.lon
    /\ ev.via = row.via
\* in this step an insert of a reading is over without a row having been written
InsertFails ==
    /\ \/ \E s \in Slots : cyc[s].pc = "insert" /\ cyc'[s] # cyc[s]
       \/ \E w \in WSlots : wh[w].pc = "insert" /\ wh'[w] # wh[w]
    /\ dbLocations' = dbLocations

\* C15: for every reading the storage write is complete when the reading is
\* broadcast: a step sends at most one event, and the row of that reading is
\* written no later than in that step (where no row is ever deleted, the k-th
\* event sent is the reading of the k-th row written); and a step in which
\* the insert of a reading fails sends no event.
C15_PersistedBeforeBroadcast ==
    [][/\ broadcasts' # broadcasts =>
              /\ Len(broadcasts') = Len(broadcasts) + 1
              /\ SubSeq(broadcasts', 1, Len(broadcasts)) = broadcasts
              /\ Len(dbLocations') >= Len(broadcasts')
              /\ \A k \in 1..Len(broadcasts') : SameReading(broadcasts'[k], dbLocations'[k])
       /\ InsertFails => broadcasts' = broadcasts]_vars
\* the insert of a webhook reading failed after its vehicle had been created,
\* and was not broadcast; a polled reading was persisted and broadcast
C15_Witness ==
    /\ Len(whLog) = 1
    /\ whLog[1].failed /\ ~whLog[1].persisted /\ ~whLog[1].broadcast
    /\ vehicleMetadataCache[RawId] # NoMeta
    /\ \A w \in WSlots : wh[w].pc = "idle"
    /\ Len(dbLocations) = 1
    /\ dbLocations[1].via = "poll"
    /\ Len(broadcasts) = 1
    /\ SameReading(broadcasts[1], dbLocations[1])

ZeroCoords(r) == r.lat = 0 /\ r.lon = 0

\* C11 as stated: a record whose latitude and longitude are both exactly 0
\* never produces a persisted reading or a broadcast, on the polling path
\* (vehicles and assets) and on the webhook path.
C11_ZeroNeverPersisted ==
    /\ \A i \in 1..Len(dbLocations) : ~ZeroCoords(dbLocations[i])
    /\ \A k \in 1..Len(broadcasts) : ~ZeroCoords(broadcasts[k])

(***************************************************************************)
(* The live subscribers                                                    *)
(***************************************************************************)
\* C20: an event is sent to exactly the connections that are in the
\* subscriber set and open at the moment of the broadcast: in the step that
\* broadcasts event number k, k is added to what each such connection has
\* received and to nothing else, the request completes although a member
\* was not open, and the subscriber set is left as it was; in every other
\* step nothing is sent to anyone, so a connection that joins later is not
\* sent an earlier event, a member that was not open is not sent the event
\* later, and a connection that has left the set is sent nothing more.
C20_FanOutToOpenMembers ==
    [][/\ broadcasts' # broadcasts =>
              /\ Len(broadcasts') = Len(broadcasts) + 1
              /\ \A c \in Clients :
                     received'[c] =
                         IF c \in wsClients /\ readyState[c] = "OPEN"
                         THEN received[c] \cup {Len(broadcasts')}
                         ELSE received[c]
              /\ UNCHANGED <<wsClients, readyState>>
              /\ \E i \in 1..Len(whLog') :
                     /\ ~whLog[i].broadcast /\ whLog'[i].broadcast
                     /\ whLog'[i].persisted /\ ~whLog'[i].failed
       /\ broadcasts' = broadcasts => received' = received]_vars
\* two events were broadcast: connection 1 was open for the first and is a
\* member that is closing at the second, which it was not sent; connection 2
\* joined after the first event and was sent the second only
C20_Witness ==
    /\ Len(broadcasts) = 2
    /\ 1 \in wsClients /\ readyState[1] = "CLOSING"
    /\ received[1] = {1}
    /\ 2 \in wsClients /\ readyState[2] = "OPEN"
    /\ received[2] = {2}

(***************************************************************************)
(* The webhook's verification pings                                        *)
(***************************************************************************)
\* C21: a webhook request whose body is an array or is empty is answered
\* 200 with success, and the step that answers it leaves the pipeline as it
\* was: the stored readings and vehicles, the metadata cache, the gate's
\* times and coordinates, the Latest-Locations cache, the events broadcast
\* and delivered, and the requests in flight.
C21_PingIsNoOp ==
    [][pingResponses' # pingResponses =>
          /\ Len(pingResponses') = Len(pingResponses) + 1
          /\ pingResponses'[Len(pingResponses')].status = 200
          /\ pingResponses'[Len(pingResponses')].success
          /\ UNCHANGED <<storageVars, cacheVars, requestVars, broadcasts, whLog, fanoutVars>>]_vars
\* a ping was answered after a reading had been persisted, delivered to a
\* subscriber and cached for the reads, and all of that is still in place
C21_Witness ==
    /\ Len(pingResponses) = 1
    /\ Len(dbLocations) = 1
    /\ dbVehicles[RawId] # NoMeta
    /\ lastKnownCoords[RawId].has
    /\ locationCache.valid /\ locationCache.data[RawId].has
    /\ Len(broadcasts) = 1 /\ received[1] = {1}

C28_NoStaleResultInstalled ==
    locationCache.valid =>
        \A v \in Ids :
            CurrentPos(dbLocations)[v].has =>
                /\ locationCache.data[v].has
                /\ locationCache.data[v].lat = CurrentPos(dbLocations)[v].lat
                /\ locationCache.data[v].lon = CurrentPos(dbLocations)[v].lon

(***************************************************************************)
(* Deleting a vehicle                                                      *)
(***************************************************************************)
\* C23 as stated: when the deletion of a vehicle completes, storage holds
\* neither the vehicle nor any reading of it (every reading held at that
\* moment was written before the deletion completed), also when a reading
\* of the vehicle was ingested while the deletion was in progress.
C23_DeleteRemovesVehicleAndHistory ==
    [][\A v \in Ids :
          deletes'[v] # deletes[v] =>
              /\ dbVehicles'[v] = NoMeta
              /\ RowsOf(dbLocations', v) = {}]_vars

(***************************************************************************)
(* The normalizer                                                          *)
(***************************************************************************)
\* the value is present and parses as a number
Parses(x) == x.kind \in {"number", "numeric"}
\* the known shapes, in their priority order, in which both coordinates of
\* the body are present and parse as numbers
QualifyingShapes(b) ==
    {i \in 1..4 : Parses(b[CoordFields[i][1]]) /\ Parses(b[CoordFields[i][2]])}
\* C24 as stated: a location update by webhook takes its coordinates from
\* the first of the shapes lat/lon, location.{lat,lon},
\* current_location.{lat,lon}, current_location.{latitude,longitude} in which
\* both coordinates are present and parse as numbers, and is rejected as
\* malformed, with nothing persisted and nothing broadcast, when there is no
\* such shape (stated for the bodies without the fields latitude/longitude
\* at the top level, a fifth pair the handler also reads).
C24_FirstQualifyingShapeWins ==
    \A n \in 1..Len(whLog) :
        LET b == whLog[n].body
            q == QualifyingShapes(b)
        IN  (DOMAIN b # {} /\ b["latitude"].kind = "absent" /\ b["longitude"].kind = "absent") =>
                IF q = {}
                THEN /\ whLog[n].gate \in {"nocoords", "invalid"}
                     /\ ~whLog[n].persisted /\ ~whLog[n].broadcast
                ELSE LET i == CHOOSE j \in q : \A k \in q : j <= k
                     IN  /\ whLog[n].gate = "accepted"
                         /\ whLog[n].lat = b[CoordFields[i][1]].v
                         /\ whLog[n].lon = b[CoordFields[i][2]].v

\* the fields of a location object whose name signals km/h, and those
\* among them and speed that the object has
KphFields == {"kph", "speed_kph", "ground_speed_kph"}
SpeedFields(cl) == {f \in KphFields \cup {"speed"} : cl[f] # Absent}
\* C25 as stated, for a polled record with one speed field (a vehicle's
\* speed, kph or speed_kph, an asset's ground_speed_kph): a value given in
\* km/h is stored multiplied by 0.621371, a value given in mph is stored as
\* it is, and the status of a vehicle record without a state of its own is
\* "moving" when that speed is above 0; so speed_kph = 100 is stored as
\* 62.1371 with status "moving".
C25_SpeedInOneUnit ==
    \A f \in KphFields \cup {"speed"} :
        (/\ location.cls \in {"vehicles", "assets"}
         /\ SpeedFields(location) = {f}
         /\ location.cls = "assets" => f = "ground_speed_kph") =>
            LET canonical == IF f \in KphFields THEN location[f] * 621371
                             ELSE location[f] * 1000000
            IN  /\ reading.speed = canonical
                /\ (location.cls = "vehicles" /\ location.vehicle_state = "" /\ canonical > 0)
                       => reading.status = "moving"


(***************************************************************************)
(* The client hook: reconnecting, and unmounting                           *)
(***************************************************************************)
\* the sockets one component can come to create
MaxSockets == 2 * (MaxLosses + MaxRenders + 1)
ClosedSockets == {i \in 1..Len(sockets) : sockets[i] = "CLOSED"}

\* C26: every close event of a socket of the hook schedules exactly one
\* reconnect timer and nothing else schedules one, so that the timers ever
\* set are as many as the closes; and while the component stays mounted, a
\* pending reconnect leads to a new WebSocket being created.
C26_ClientReconnects ==
    /\ [][/\ ClosedSockets' # ClosedSockets
              => /\ Cardinality(ClosedSockets') = Cardinality(ClosedSockets) + 1
                 /\ reconnectTimeout' \notin timers
                 /\ timers' = timers \cup {reconnectTimeout'}
          /\ ~(timers' \subseteq timers) => ClosedSockets' # ClosedSockets
          /\ reconnectTimeout' = Cardinality(ClosedSockets')]_vars
    /\ \A n \in 1..MaxSockets :
          (hook = "mounted" /\ timers # {} /\ Len(sockets) = n)
              ~> (Len(sockets) > n \/ hook = "unmounted")
\* a first connection was lost, and the connection made by the reconnect
\* timer is open
C26_Witness ==
    /\ hook = "mounted"
    /\ renders = 0
    /\ Len(sockets) = 2
    /\ sockets[1] = "CLOSED"
    /\ sockets[2] = "OPEN"
    /\ wsCurrent = 2
    /\ isConnected

\* C30: once the component is unmounted no reconnect timer is pending and
\* no WebSocket is created any more.
C30_NothingAfterUnmount ==
    /\ [](hook = "unmounted" => timers = {})
    /\ [][hook = "unmounted" => Len(sockets') = Len(sockets)]_vars

=============================================================================
